---- MODULE Spec2Model ----
(***************************************************************************)
(* Variant-data ingestion of the scoresets router                          *)
(* (src/app/routers/scoresets.py): the upload handler, create_variants and *)
(* bulk_create_urns, run by requests that each own a database session      *)
(* (src/app/db/session.py) against one shared database.                    *)
(***************************************************************************)
EXTENDS Integers, Sequences, FiniteSets, TLC

VARIABLES
    scoresets,      \* committed rows of the scoreset table, keyed by urn
    variants,       \* committed rows of the variant table, in insertion order
    pc,             \* per request: position in upload_scoreset_variant_data
    item,           \* per request: the Scoreset object held by its session
    variants_data,  \* per request: the merged VariantData sequence
    columns,        \* per request: [score_columns, count_columns] of the upload
    variant_urns,   \* per request: the urns bulk_create_urns returned
    pending,        \* per request: variant rows written in the open transaction
    err,            \* per request: the exception that ended the call ("" if none)
    attempts,       \* per request: executions of the handler body for this call
    upload,         \* per request: what the call was given and what it read
    calls,          \* number of upload calls started so far
    history,        \* log of the committed ingestions, in commit order
    lastFail,       \* log of an ingestion that failed after minting urns, kept
                    \* until a call that is not a repetition of it begins
    call,           \* arguments and result of the last direct function call
    export,         \* the export request: its position in fetch_scoreset_scores,
                    \* what it has read and what it returns
    keywords        \* the keyword table, the experiments' keyword lists and,
                    \* per request, the keyword objects its session holds

vars == <<scoresets, variants, pc, item, variants_data, columns, variant_urns,
          pending, err, attempts, upload, calls, history, lastFail, call, export,
          keywords>>

----------------------------------------------------------------------------
(* Bounds of the model. *)

MaxUploads == 2
MaxSeqUploads == 3
MaxRows == 2
MaxCounter == 4
MaxTokenLen == 3
MaxLoadRows == 2
MaxCellUploads == 1
MaxExportUploads == 2
MaxFormatRows == 2
MaxAddressedUploads == 2
MaxPublications == 2
MaxTargets == 1
MaxKeywords == 2
MaxKeywordCalls == 2
MaxPrivateRows == 2

Requests == {"r1", "r2"}

----------------------------------------------------------------------------
(* Data. *)

\* class HGVSColumns
HGVSColumns == {"hgvs_nt", "hgvs_splice", "hgvs_pro"}

\* np.NaN: the missing value of a loaded cell
NaN == [kind |-> "nan", num |-> 0, text |-> <<>>]

\* a str cell, holding the sequence of its characters
StrValue(text) == [kind |-> "str", num |-> 0, text |-> text]

\* a cell of a numeric column
NumValue(n) == [kind |-> "num", num |-> n, text |-> <<>>]

EmptyData == [c \in {} |-> 0]

NoColumns == [score_columns |-> {}, count_columns |-> {}]

\* no Scoreset object (the query's None)
NoItem == [found |-> FALSE, urn |-> "", private |-> FALSE, num_variants |-> 0,
           dataset_columns |-> NoColumns]

\* an absent upload (counts_file = None)
NoFile == [present |-> FALSE, parsable |-> TRUE, header |-> {}, rows |-> <<>>]

SeqsUpTo(S, n) == UNION {[1..k -> S] : k \in 0..n}

SeqToSet(s) == {s[i] : i \in DOMAIN s}

Last(s) == s[Len(s)]

\* a set as a list, in the order list() gave when the manifest was stored
RECURSIVE SetToSeq(_)
SetToSeq(S) ==
    IF S = {} THEN <<>>
    ELSE LET x == CHOOSE x \in S : TRUE IN <<x>> \o SetToSeq(S \ {x})

\* the distinct elements of s, in the order of their first appearance
FirstAppearance(s) ==
    LET first == {i \in DOMAIN s : \A j \in 1..(i - 1) : s[j] # s[i]}
        Rank(i) == Cardinality({j \in first : j <= i})
    IN  [k \in 1..Cardinality(first) |-> s[CHOOSE i \in first : Rank(i) = k]]

----------------------------------------------------------------------------
(* Text. A token is the sequence of its characters. *)

LowerLetters == <<"a", "b", "c", "d", "e", "f", "g", "h", "i", "j", "k", "l", "m", "n", "o", "p", "q", "r", "s", "t", "u", "v", "w", "x", "y", "z">>

UpperLetters == <<"A", "B", "C", "D", "E", "F", "G", "H", "I", "J", "K", "L", "M", "N", "O", "P", "Q", "R", "S", "T", "U", "V", "W", "X", "Y", "Z">>

Digits == <<"0", "1", "2", "3", "4", "5", "6", "7", "8", "9">>

\* the characters str.strip() removes and \s matches
Whitespace == {" ", "\t"}

LowerOf ==
    [c \in SeqToSet(UpperLetters) |->
        LowerLetters[CHOOSE i \in DOMAIN UpperLetters : UpperLetters[i] = c]]

UpperOf ==
    [c \in SeqToSet(LowerLetters) |->
        UpperLetters[CHOOSE i \in DOMAIN LowerLetters : LowerLetters[i] = c]]

ToLowerChar(c) == IF c \in DOMAIN LowerOf THEN LowerOf[c] ELSE c

ToUpperChar(c) == IF c \in DOMAIN UpperOf THEN UpperOf[c] ELSE c

\* str.lower(), str.upper(), str.capitalize()
Lower(s) == [i \in DOMAIN s |-> ToLowerChar(s[i])]

Upper(s) == [i \in DOMAIN s |-> ToUpperChar(s[i])]

Capitalize(s) ==
    [i \in DOMAIN s |-> IF i = 1 THEN ToUpperChar(s[i]) ELSE ToLowerChar(s[i])]

\* str.strip()
Strip(s) ==
    LET keep == {i \in DOMAIN s : s[i] \notin Whitespace}
        first == CHOOSE i \in keep : \A j \in keep : i <= j
        last == CHOOSE i \in keep : \A j \in keep : i >= j
    IN  IF keep = {} THEN <<>> ELSE SubSeq(s, first, last)

\* decimal digits of a natural number
RECURSIVE IntToToken(_)
IntToToken(n) ==
    IF n < 10 THEN <<Digits[n + 1]>>
    ELSE Append(IntToToken(n \div 10), Digits[(n % 10) + 1])

DigitValue(c) == (CHOOSE i \in DOMAIN Digits : Digits[i] = c) - 1

RECURSIVE ParseInt(_)
ParseInt(tok) ==
    IF Len(tok) = 0 THEN 0
    ELSE 10 * ParseInt(SubSeq(tok, 1, Len(tok) - 1)) + DigitValue(tok[Len(tok)])

\* str(value)
PyStr(value) ==
    CASE value.kind = "str" -> value.text
      [] value.kind = "nan" -> <<"n", "a", "n">>
      [] value.kind = "num" -> IntToToken(value.num)

----------------------------------------------------------------------------
(* The null normalizer: null_values_re and is_null. *)

\* the literal alternatives of null_values_re
NullSpellings ==
    {<<"n", "o", "n", "e">>,
     <<"n", "a", "n">>,
     <<"n", "a">>,
     <<"u", "n", "d", "e", "f", "i", "n", "e", "d">>,
     <<"n", "/", "a">>,
     <<"n", "u", "l", "l">>,
     <<"n", "i", "l">>}

\* null_values_re.fullmatch(s), flags=re.IGNORECASE:
\* \s+ | none | nan | na | undefined | n/a | null | nil
NullValuesReFullMatch(s) ==
    \/ Len(s) >= 1 /\ \A i \in DOMAIN s : s[i] \in Whitespace
    \/ Lower(s) \in NullSpellings

\* null_values_re.search(s): some substring of s matches an alternative
NullValuesReSearch(s) ==
    LET l == Lower(s)
    IN  \/ \E i \in DOMAIN s : s[i] \in Whitespace
        \/ \E w \in NullSpellings : \E i \in 1..(Len(l) - Len(w) + 1) :
              SubSeq(l, i, i + Len(w) - 1) = w

\* is_null testing with search() where the code uses fullmatch()
IsNullSearch(value) ==
    LET v == Lower(Strip(PyStr(value)))
    IN  NullValuesReSearch(v) \/ v = <<>>

\* def is_null(value): the truth value of
\* null_values_re.fullmatch(value) or not value, value = str(value).strip().lower()
IsNull(value) ==
    LET v == Lower(Strip(PyStr(value)))
    IN  NullValuesReFullMatch(v) \/ v = <<>>

----------------------------------------------------------------------------
(* The loader: pd.read_csv, .replace(null_values_re, np.NaN) and the       *)
(* synthesis of absent identifier columns.                                 *)

\* the tokens pd.read_csv takes as NA by itself (keep_default_na=True)
PandasNaValues ==
    {<<>>, <<"#", "N", "/", "A">>, <<"#", "N", "/", "A", " ", "N", "/", "A">>, <<"#", "N", "A">>,
     <<"-", "1", ".", "#", "I", "N", "D">>, <<"-", "1", ".", "#", "Q", "N", "A", "N">>, <<"-", "N", "a", "N">>, <<"-", "n", "a", "n">>,
     <<"1", ".", "#", "I", "N", "D">>, <<"1", ".", "#", "Q", "N", "A", "N">>, <<"<", "N", "A", ">">>, <<"N", "/", "A">>,
     <<"N", "A">>, <<"N", "U", "L", "L">>, <<"N", "a", "N">>, <<"N", "o", "n", "e">>,
     <<"n", "/", "a">>, <<"n", "a", "n">>, <<"n", "u", "l", "l">>}

\* null_values_list of mavecore.validation.constants
NullValuesList ==
    {<<"n", "a", "n">>, <<"n", "a">>, <<"n", "o", "n", "e">>, <<>>,
     <<"u", "n", "d", "e", "f", "i", "n", "e", "d">>, <<"n", "/", "a">>, <<"n", "u", "l", "l">>, <<"n", "i", "l">>}

\* extra_na_values: the list in its own, lower, upper and capitalized casing
ExtraNaValues ==
    NullValuesList \cup {Lower(x) : x \in NullValuesList}
        \cup {Upper(x) : x \in NullValuesList}
        \cup {Capitalize(x) : x \in NullValuesList}

NaValues == PandasNaValues \cup ExtraNaValues

\* an integer literal (the numeric tokens of the model's files)
DigitChars == SeqToSet(Digits)

IsNumeric(tok) == Len(tok) >= 1 /\ \A i \in DOMAIN tok : tok[i] \in DigitChars

\* pd.read_csv infers a numeric dtype for a column whose tokens are all
\* NA or numeric; any other token leaves the whole column as str objects
ColumnIsNumeric(file, c) ==
    \A i \in DOMAIN file.rows :
        file.rows[i][c] \in NaValues \/ IsNumeric(file.rows[i][c])

\* dtype: str for the HGVSColumns, float for 'scores', inferred otherwise
ParseCell(file, c, tok) ==
    IF tok \in NaValues THEN NaN
    ELSE IF c \in HGVSColumns THEN StrValue(tok)
    ELSE IF ColumnIsNumeric(file, c) THEN NumValue(ParseInt(tok))
    ELSE StrValue(tok)

\* DataFrame.replace(null_values_re, np.NaN): a str cell in which the
\* pattern is found (re.search) becomes NaN
ReplaceNull(value) ==
    IF value.kind = "str" /\ NullValuesReSearch(value.text) THEN NaN ELSE value

\* pd.read_csv(...).replace(null_values_re, np.NaN): a table with the
\* header's columns, or an exception
ReadCsv(file) ==
    LET error == IF ~file.parsable THEN "ParserError"
                 ELSE IF "scores" \in file.header /\ ~ColumnIsNumeric(file, "scores")
                 THEN "ValueError"
                 ELSE ""
    IN  [ok |-> error = "", error |-> error, columns |-> file.header,
         rows |-> IF error # "" THEN <<>>
                  ELSE [i \in DOMAIN file.rows |->
                          [c \in file.header |->
                              ReplaceNull(ParseCell(file, c, file.rows[i][c]))]]]

\* a synthesis that stops after the first of the HGVSColumns
AddHgvsColumnsFirstOnly(df) ==
    [df EXCEPT
        !.columns = df.columns \cup {"hgvs_nt"},
        !.rows = [i \in DOMAIN df.rows |->
                    [c \in df.columns \cup {"hgvs_nt"} |->
                        IF c \in df.columns THEN df.rows[i][c] ELSE NaN]]]

\* for c in HGVSColumns.options(): if c not in df.columns: df[c] = np.NaN
AddHgvsColumns(df) ==
    [df EXCEPT
        !.columns = df.columns \cup HGVSColumns,
        !.rows = [i \in DOMAIN df.rows |->
                    [c \in df.columns \cup HGVSColumns |->
                        IF c \in df.columns THEN df.rows[i][c] ELSE NaN]]]

\* every column of the table, the identifier columns included
DataColumnsAll(df) == df.columns

\* {col for col in df.columns if col not in HGVSColumns.options()}
DataColumns(df) == df.columns \ HGVSColumns

----------------------------------------------------------------------------
(* The merger create_variants_data (app.lib.scoresets). *)

Triple(row) == <<row["hgvs_nt"], row["hgvs_pro"], row["hgvs_splice"]>>

HasDuplicateTriple(rows) ==
    \E i, j \in DOMAIN rows : i # j /\ Triple(rows[i]) = Triple(rows[j])

RowData(row, cols) == [c \in cols |-> row[c]]

VariantDataOf(triple, score_data, count_data) ==
    [hgvs_nt |-> triple[1], hgvs_pro |-> triple[2], hgvs_splice |-> triple[3],
     data |-> [score_data |-> score_data, count_data |-> count_data]]

CreateVariantsData(scores_df, counts_df, has_counts) ==
    LET srows == scores_df.rows
        crows == IF has_counts THEN counts_df.rows ELSE <<>>
        scols == DataColumns(scores_df)
        ccols == IF has_counts THEN DataColumns(counts_df) ELSE {}
        skeys == {Triple(srows[i]) : i \in DOMAIN srows}
        CountFor(t) ==
            IF \E j \in DOMAIN crows : Triple(crows[j]) = t
            THEN RowData(crows[CHOOSE j \in DOMAIN crows : Triple(crows[j]) = t],
                         ccols)
            ELSE EmptyData
        matched == [i \in DOMAIN srows |->
                      VariantDataOf(Triple(srows[i]), RowData(srows[i], scols),
                                    CountFor(Triple(srows[i])))]
        rest == SelectSeq(crows, LAMBDA row : Triple(row) \notin skeys)
        appended == [i \in DOMAIN rest |->
                       VariantDataOf(Triple(rest[i]), EmptyData,
                                     RowData(rest[i], ccols))]
    IN  IF HasDuplicateTriple(crows)
        THEN [ok |-> FALSE, error |-> "AmbiguousKey", variants_data |-> <<>>]
        ELSE IF Len(srows) = 0
        THEN [ok |-> FALSE, error |-> "EmptyDataset", variants_data |-> <<>>]
        ELSE IF HasDuplicateTriple(srows)
        THEN [ok |-> FALSE, error |-> "AmbiguousKey", variants_data |-> <<>>]
        ELSE [ok |-> TRUE, error |-> "", variants_data |-> matched \o appended]

----------------------------------------------------------------------------
(* The identifier assigner. *)

\* "{}#{}".format(parent_urn, k)
ChildUrn(parent_urn, k) == parent_urn \o "#" \o ToString(k)

\* bulk_create_urns numbering from start_value + i instead of start_value + (i + 1)
BulkCreateUrnsFromStart(n, scoreset, reset_counter) ==
    LET start_value == IF reset_counter THEN 0 ELSE scoreset.num_variants
    IN  [urns |-> [i \in 1..n |-> ChildUrn(scoreset.urn, start_value + i - 1)],
         scoreset |-> [scoreset EXCEPT !.num_variants = start_value + n]]

\* bulk_create_urns with reset_counter defaulting to True: always from 0
BulkCreateUrnsRestart(n, scoreset, reset_counter) ==
    [urns |-> [i \in 1..n |-> ChildUrn(scoreset.urn, i)],
     scoreset |-> [scoreset EXCEPT !.num_variants = n]]

\* def bulk_create_urns(n, scoreset, reset_counter=False)
BulkCreateUrns(n, scoreset, reset_counter) ==
    LET start_value == IF reset_counter THEN 0 ELSE scoreset.num_variants
        parent_urn == scoreset.urn
        child_urns == [i \in 1..n |-> ChildUrn(parent_urn, start_value + i)]
        current_value == start_value + n
    IN  [urns |-> child_urns,
         scoreset |-> [scoreset EXCEPT !.num_variants = current_value]]

----------------------------------------------------------------------------
(* The database session. *)

\* the query without the filter on the private flag
QueryScoresetAnyVisibility(tbl, urn) ==
    IF urn \in DOMAIN tbl
    THEN [found |-> TRUE, urn |-> urn, private |-> tbl[urn].private,
          num_variants |-> tbl[urn].num_variants,
          dataset_columns |-> tbl[urn].dataset_columns]
    ELSE NoItem

\* db.query(Scoreset).filter(urn == urn).filter(private.is_(False)).one_or_none()
QueryScoreset(tbl, urn) ==
    IF urn \in DOMAIN tbl /\ ~tbl[urn].private
    THEN [found |-> TRUE, urn |-> urn, private |-> tbl[urn].private,
          num_variants |-> tbl[urn].num_variants,
          dataset_columns |-> tbl[urn].dataset_columns]
    ELSE NoItem

\* the urns zipped with the data in reverse order
NewVariantsReversed(urns, scoreset, data) ==
    LET n == IF Len(urns) < Len(data) THEN Len(urns) ELSE Len(data)
    IN  [i \in 1..n |->
            [urn |-> urns[n + 1 - i], scoreset_id |-> scoreset.urn,
             hgvs_nt |-> data[i].hgvs_nt, hgvs_pro |-> data[i].hgvs_pro,
             hgvs_splice |-> data[i].hgvs_splice, data |-> data[i].data]]

\* Variant(urn=urn, scoreset_id=scoreset.id, **kwargs) for zip(urns, variants_data)
NewVariants(urns, scoreset, data) ==
    LET n == IF Len(urns) < Len(data) THEN Len(urns) ELSE Len(data)
    IN  [i \in 1..n |->
            [urn |-> urns[i], scoreset_id |-> scoreset.urn,
             hgvs_nt |-> data[i].hgvs_nt, hgvs_pro |-> data[i].hgvs_pro,
             hgvs_splice |-> data[i].hgvs_splice, data |-> data[i].data]]

\* bulk_save_objects on an autocommit session: the rows are committed at once
BulkSaveObjectsAutocommit(tbl, open, rows) ==
    [committed |-> tbl \o rows, pending |-> open]

\* db.bulk_save_objects(variants): INSERTs inside the session's open
\* transaction; the committed table is untouched until db.commit()
BulkSaveObjects(tbl, open, rows) == [committed |-> tbl, pending |-> open \o rows]

\* a commit that writes the manifest and leaves the counter column alone
CommitScoresetColumnsOnly(tbl, it) ==
    [tbl EXCEPT ![it.urn].dataset_columns = it.dataset_columns]

\* an UPDATE without its WHERE clause: every scoreset row is rewritten
CommitScoresetAllRows(tbl, it) ==
    [u \in DOMAIN tbl |-> [private |-> tbl[u].private,
                           num_variants |-> it.num_variants,
                           dataset_columns |-> it.dataset_columns]]

\* db.commit(), scoreset table: the UPDATE of the changed attributes of item
CommitScoreset(tbl, it) ==
    [tbl EXCEPT ![it.urn] = [private |-> it.private,
                             num_variants |-> it.num_variants,
                             dataset_columns |-> it.dataset_columns]]

\* db.commit(), variant table: the transaction's INSERTs become visible
CommitVariants(tbl, open) == tbl \o open

\* a session that writes its object's pending changes when it is closed
DiscardSessionFlushed(tbl, it) ==
    IF it.found
    THEN [tbl EXCEPT ![it.urn].num_variants = it.num_variants]
    ELSE tbl

\* sessionmaker(autocommit=False, autoflush=False): a session closed without
\* db.commit() leaves the committed rows as they were
DiscardSession(tbl, it) == tbl

\* scoreset.variants: the committed variants of a scoreset
VariantsOf(tbl, urn) == SelectSeq(tbl, LAMBDA v : v.scoreset_id = urn)

----------------------------------------------------------------------------
(* The requests' inputs. *)

\* urns of the stored scoresets (the third one is private) and an unknown urn
StoredUrns == {"urn:1", "urn:2", "urn:3"}
PrivateUrns == {"urn:3"}
RequestUrns == StoredUrns \cup {"urn:9"}

HgvsIds == {<<"c", ".", "1", "A", ">", "G">>, <<"c", ".", "2", "C", ">", "T">>}

ScoresHeader == {"hgvs_nt", "score"}
CountsHeader == {"hgvs_nt", "c0"}

FileRow(header, id) == [c \in header |-> IF c = "hgvs_nt" THEN id ELSE <<"1">>]

FileOf(header, ids) ==
    [present |-> TRUE, parsable |-> TRUE, header |-> header,
     rows |-> [i \in DOMAIN ids |-> FileRow(header, ids[i])]]

\* bytes pd.read_csv cannot parse
BadFile == [present |-> TRUE, parsable |-> FALSE, header |-> {}, rows |-> <<>>]

ScoresFiles ==
    {FileOf(ScoresHeader, ids) : ids \in SeqsUpTo(HgvsIds, MaxRows)} \cup {BadFile}

CountsFiles ==
    {NoFile, FileOf(CountsHeader, <<<<"c", ".", "2", "C", ">", "T">>,
                                    <<"c", ".", "3", "G", ">", "A">>>>),
     FileOf(CountsHeader, <<<<"c", ".", "2", "C", ">", "T">>, <<"c", ".", "2", "C", ">", "T">>>>)}

\* the cells of the varying column
CellTokens ==
    {<<"N", "a", "N">>, <<"N", "A">>, <<" ">>,
     <<>>, <<"1">>, <<"1", "2">>,
     <<"a", "b", "c">>, <<"f", "i", "n", "a", "l">>, <<"a", " ", "b">>,
     <<"N", "i", "l">>, <<"n", "I", "l">>, <<"c", ".", "3", "_", "4", "i", "n", "s", "N", "A">>}

\* headers of two columns: a key column and the varying column
LoaderHeaders ==
    {<<"hgvs_nt", "score">>, <<"hgvs_nt", "hgvs_pro">>, <<"hgvs_nt", "scores">>,
     <<"hgvs_splice", "score">>}

LoaderFile(h, cells) ==
    [present |-> TRUE, parsable |-> TRUE, header |-> {h[1], h[2]},
     rows |-> [i \in DOMAIN cells |->
                 [c \in {h[1], h[2]} |->
                     IF c = h[1] THEN <<"c", ".", Digits[i + 1], "A", ">", "G">>
                     ELSE cells[i]]]]

LoaderFiles ==
    {LoaderFile(h, cells) :
        h \in LoaderHeaders, cells \in SeqsUpTo(CellTokens, MaxLoadRows) \ {<<>>}}
        \cup {BadFile}

\* a cell of a non-identifier column that is neither null nor numeric
HasMalformedToken(file) ==
    \E i \in DOMAIN file.rows : \E c \in file.header \ HGVSColumns :
        ~IsNull(StrValue(file.rows[i][c])) /\ ~IsNumeric(file.rows[i][c])

----------------------------------------------------------------------------
(* upload_scoreset_variant_data, step by step. *)

InFlight(r) == pc[r] \in {"create", "save", "columns", "commit"}

NoFail == [valid |-> FALSE, urn |-> "", start |-> 0, urns |-> <<>>,
           variants_data |-> <<>>]

NoUpload == [scores_only |-> FALSE, keys |-> <<>>, count_keys |-> <<>>, read |-> 0,
             score_columns |-> {}, count_columns |-> {}, malformed |-> FALSE,
             duplicate |-> FALSE, empty |-> FALSE]

\* the call ends with an exception: the session, with the objects and the
\* open transaction it holds, is closed without a commit
Raise(r, error) ==
    /\ pc' = [pc EXCEPT ![r] = "failed"]
    /\ err' = [err EXCEPT ![r] = error]
    /\ pending' = [pending EXCEPT ![r] = <<>>]
    /\ item' = [item EXCEPT ![r] = NoItem]
    /\ variants_data' = [variants_data EXCEPT ![r] = <<>>]
    /\ columns' = [columns EXCEPT ![r] = NoColumns]
    /\ variant_urns' = [variant_urns EXCEPT ![r] = <<>>]

\* a handler that catches the merger's exception and goes on
OutcomeMergeErrorSwallowed(it, scores_csv, counts_csv, has_counts, merged) ==
    IF ~it.found THEN "AttributeError"
    ELSE IF ~scores_csv.ok THEN scores_csv.error
    ELSE IF has_counts /\ ~counts_csv.ok THEN counts_csv.error
    ELSE ""

\* the exception that ends lines 197-251, "" if none: 'item.urn' of None at
\* line 198, pd.read_csv at 208 and 231, create_variants_data at 251; the
\* handler catches none of them
Outcome(it, scores_csv, counts_csv, has_counts, merged) ==
    IF ~it.found THEN "AttributeError"
    ELSE IF ~scores_csv.ok THEN scores_csv.error
    ELSE IF has_counts /\ ~counts_csv.ok THEN counts_csv.error
    ELSE merged.error

TriplesOf(df) == [i \in DOMAIN df.rows |-> Triple(df.rows[i])]

\* lines 201-251 for one pair of uploaded files: the two loads and the merge
Prepare(scores_file, counts_file) ==
    LET scores_csv == ReadCsv(scores_file)
        counts_csv == ReadCsv(counts_file)
        scores_df == AddHgvsColumns(scores_csv)
        counts_df == AddHgvsColumns(counts_csv)
        has_counts == counts_file.present
    IN  [scores_csv |-> [ok |-> scores_csv.ok, error |-> scores_csv.error],
         counts_csv |-> [ok |-> counts_csv.ok, error |-> counts_csv.error],
         has_counts |-> has_counts,
         merged |-> CreateVariantsData(scores_df, counts_df, has_counts),
         columns |-> [score_columns |-> DataColumns(scores_df),
                      count_columns |-> IF has_counts THEN DataColumns(counts_df)
                                        ELSE {}],
         summary |->
             [scores_only |-> ~has_counts,
              keys |-> FirstAppearance(TriplesOf(scores_df)),
              count_keys |-> IF has_counts
                             THEN FirstAppearance(TriplesOf(counts_df))
                             ELSE <<>>,
              read |-> 0,
              score_columns |-> scores_file.header \ HGVSColumns,
              count_columns |-> IF has_counts
                                THEN counts_file.header \ HGVSColumns
                                ELSE {},
              malformed |-> \/ HasMalformedToken(scores_file)
                            \/ has_counts /\ HasMalformedToken(counts_file),
              duplicate |-> \/ HasDuplicateTriple(scores_df.rows)
                            \/ has_counts /\ HasDuplicateTriple(counts_df.rows),
              empty |-> Len(scores_df.rows) = 0]]

\* lines 197-251: the query, then what the loads and the merge gave
BeginLoaded(r, urn, p) ==
    /\ ~InFlight(r)
    /\ calls' = calls + 1
    /\ attempts' = [attempts EXCEPT ![r] = 1]
    /\ UNCHANGED <<scoresets, variants, history, call, export, keywords>>
    /\ LET it == QueryScoreset(scoresets, urn)
           failure == Outcome(it, p.scores_csv, p.counts_csv, p.has_counts, p.merged)
           merging == /\ it.found /\ p.scores_csv.ok
                      /\ (p.has_counts => p.counts_csv.ok)
           summary == [p.summary EXCEPT !.read = it.num_variants]
       IN  IF failure # ""
           THEN /\ Raise(r, failure)
                /\ lastFail' = NoFail
                /\ upload' = [upload EXCEPT ![r] =
                      IF merging
                      THEN [NoUpload EXCEPT !.duplicate = summary.duplicate,
                                            !.empty = summary.empty]
                      ELSE NoUpload]
           ELSE /\ lastFail' = IF /\ lastFail.urn = urn
                                  /\ lastFail.variants_data = p.merged.variants_data
                               THEN lastFail ELSE NoFail
                /\ pc' = [pc EXCEPT ![r] = "create"]
                /\ variant_urns' = [variant_urns EXCEPT ![r] = <<>>]
                /\ upload' = [upload EXCEPT ![r] = summary]
                /\ err' = [err EXCEPT ![r] = ""]
                /\ pending' = [pending EXCEPT ![r] = <<>>]
                /\ item' = [item EXCEPT ![r] = it]
                /\ variants_data' = [variants_data EXCEPT ![r] = p.merged.variants_data]
                /\ columns' = [columns EXCEPT ![r] = p.columns]

\* upload_scoreset_variant_data up to the merge, for one request
Begin(r, urn, scores_file, counts_file) ==
    BeginLoaded(r, urn, Prepare(scores_file, counts_file))

\* the files of the concurrent and of the sequential requests, and what the
\* loads and the merge make of each pair (computed once per pair)
ScoresFileSeq == SetToSeq(ScoresFiles)

CountsFileSeq == SetToSeq(CountsFiles)

Prepared ==
    [i \in DOMAIN ScoresFileSeq |->
        [j \in DOMAIN CountsFileSeq |->
            Prepare(ScoresFileSeq[i], CountsFileSeq[j])]]

\* create_variants, lines 288-289: the urns are minted on the session's object
CreateUrns(r) ==
    /\ pc[r] = "create"
    /\ LET res == BulkCreateUrns(Len(variants_data[r]), item[r], FALSE)
       IN  /\ variant_urns' = [variant_urns EXCEPT ![r] = res.urns]
           /\ item' = [item EXCEPT ![r] = res.scoreset]
    /\ pc' = [pc EXCEPT ![r] = "save"]
    /\ UNCHANGED <<scoresets, variants, variants_data, columns, pending, err,
                   attempts, upload, calls, history, lastFail, call, export,
                   keywords>>

\* create_variants, lines 290-296: the variants are written in the transaction
SaveVariants(r) ==
    /\ pc[r] = "save"
    /\ LET res == BulkSaveObjects(variants, pending[r],
                     NewVariants(variant_urns[r], item[r], variants_data[r]))
       IN  /\ variants' = res.committed
           /\ pending' = [pending EXCEPT ![r] = res.pending]
    /\ pc' = [pc EXCEPT ![r] = "columns"]
    /\ UNCHANGED <<scoresets, item, variants_data, columns, variant_urns, err,
                   attempts, upload, calls, history, lastFail, call, export,
                   keywords>>

\* a manifest update that adds the new columns to the stored ones
SetColumnsMerged(r) ==
    /\ pc[r] = "columns"
    /\ item' = [item EXCEPT ![r].dataset_columns =
          [score_columns |-> @.score_columns \cup columns[r].score_columns,
           count_columns |-> @.count_columns \cup columns[r].count_columns]]
    /\ pc' = [pc EXCEPT ![r] = "commit"]
    /\ UNCHANGED <<scoresets, variants, variants_data, columns, variant_urns,
                   pending, err, attempts, upload, calls, history, lastFail, call, export,
                   keywords>>

\* lines 264-269: the manifest is overwritten on the session's object
SetColumns(r) ==
    /\ pc[r] = "columns"
    /\ item' = [item EXCEPT ![r].dataset_columns = columns[r]]
    /\ pc' = [pc EXCEPT ![r] = "commit"]
    /\ UNCHANGED <<scoresets, variants, variants_data, columns, variant_urns,
                   pending, err, attempts, upload, calls, history, lastFail, call, export,
                   keywords>>

\* lines 280-282: db.commit(), db.refresh(item), return item; the request is
\* over and its session is closed
Commit(r) ==
    /\ pc[r] = "commit"
    /\ scoresets' = CommitScoreset(scoresets, item[r])
    /\ variants' = CommitVariants(variants, pending[r])
    /\ pc' = [pc EXCEPT ![r] = "done"]
    /\ pending' = [pending EXCEPT ![r] = <<>>]
    /\ item' = [item EXCEPT ![r] = NoItem]
    /\ variants_data' = [variants_data EXCEPT ![r] = <<>>]
    /\ columns' = [columns EXCEPT ![r] = NoColumns]
    /\ variant_urns' = [variant_urns EXCEPT ![r] = <<>>]
    /\ upload' = [upload EXCEPT ![r] = NoUpload]
    /\ history' = Append(history,
          [urn |-> item[r].urn,
           scores_only |-> upload[r].scores_only,
           keys |-> upload[r].keys,
           read |-> upload[r].read,
           score_columns |-> upload[r].score_columns,
           count_columns |-> upload[r].count_columns,
           malformed |-> upload[r].malformed,
           manifest_before |-> scoresets[item[r].urn].dataset_columns,
           manifest_after |-> scoresets'[item[r].urn].dataset_columns,
           before |-> scoresets[item[r].urn].num_variants,
           after |-> scoresets'[item[r].urn].num_variants,
           had_variants |-> Len(VariantsOf(variants, item[r].urn)) > 0,
           urns |-> [i \in DOMAIN pending[r] |-> pending[r][i].urn],
           triples |-> [i \in DOMAIN pending[r] |-> Triple(pending[r][i])]])
    /\ lastFail' = IF lastFail.urn = item[r].urn THEN NoFail ELSE lastFail
    /\ UNCHANGED <<err, attempts, calls, call, export, keywords>>

\* a handler that runs its body again when db.commit() raises
FailRetried(r, log) ==
    /\ pc[r] = "commit"
    /\ attempts[r] < 3
    /\ attempts' = [attempts EXCEPT ![r] = @ + 1]
    /\ pc' = [pc EXCEPT ![r] = "create"]
    /\ item' = [item EXCEPT ![r] = QueryScoreset(scoresets, item[r].urn)]
    /\ pending' = [pending EXCEPT ![r] = <<>>]
    /\ variant_urns' = [variant_urns EXCEPT ![r] = <<>>]
    /\ UNCHANGED <<scoresets, variants, variants_data, columns, err, upload,
                   calls, history, lastFail, call, export, keywords>>

\* an exception in create_variants, in the manifest update or in db.commit():
\* the handler catches nothing and nothing runs it again
Fail(r, log) ==
    /\ pc[r] \in {"create", "save", "columns", "commit"}
    /\ Raise(r, "Exception:" \o pc[r])
    /\ upload' = [upload EXCEPT ![r] = NoUpload]
    /\ scoresets' = DiscardSession(scoresets, item[r])
    /\ lastFail' = IF ~log \/ pc[r] = "create" THEN lastFail
                   ELSE [valid |-> TRUE, urn |-> item[r].urn,
                         start |-> upload[r].read,
                         urns |-> variant_urns[r],
                         variants_data |-> variants_data[r]]
    /\ UNCHANGED <<variants, attempts, calls, history, call, export, keywords>>

----------------------------------------------------------------------------
(* The exporter: fetch_scoreset_scores and format_csv_rows. *)

\* na_rep="NA"
NaRep == <<"N", "A">>

\* the value written for one cell: str(value), or na_rep if is_null(value)
CsvCell(value) == IF IsNull(value) THEN NaRep ELSE PyStr(value)

\* format_csv_rows(variants, columns, dtype, na_rep="NA"): a dict per variant;
\* variant.data[dtype][column_key] raises KeyError for a column the variant's
\* map does not have. A urn "{parent}#{n}" is not empty and holds "#", which
\* no alternative of null_values_re matches: is_null is false for it.
FormatCsvRows(vs, cols, dtype) ==
    LET data_columns == SeqToSet(cols) \ {"accession", "hgvs_nt", "hgvs_pro", "hgvs_splice"}
        missing == \E i \in DOMAIN vs :
                      \E c \in data_columns : c \notin DOMAIN vs[i].data[dtype]
        Value(v, c) ==
            CASE c = "accession" -> v.urn
              [] c = "hgvs_nt" -> CsvCell(v.hgvs_nt)
              [] c = "hgvs_pro" -> CsvCell(v.hgvs_pro)
              [] c = "hgvs_splice" -> CsvCell(v.hgvs_splice)
              [] OTHER -> CsvCell(v.data[dtype][c])
    IN  [ok |-> ~missing,
         error |-> IF missing THEN "KeyError" ELSE "",
         rows |-> IF missing THEN <<>>
                  ELSE [i \in DOMAIN vs |-> [c \in SeqToSet(cols) |-> Value(vs[i], c)]]]

NoExport == [pc |-> "idle", urn |-> "", columns |-> <<>>, rows |-> <<>>,
             err |-> "", score_columns |-> {}, variants_at_query |-> <<>>,
             manifest_at_load |-> {}, loaded |-> <<>>]

\* no keyword stored, no experiment tagged, no request at work
NoSession == [pc |-> "idle", experiment |-> "", texts |-> <<>>, keyword_objs |-> <<>>,
              err |-> ""]

NoKeywords == [unique |-> FALSE, rows |-> <<>>,
               experiments |-> [e \in {"exp:1", "exp:2"} |-> <<>>],
               sessions |-> [r \in Requests |-> NoSession], calls |-> 0]

Accessions(rows) == [i \in DOMAIN rows |-> rows[i].urn]

\* lines 96-101: db.query(Scoreset).filter(Scoreset.urn==urn).first(), the 404
\* and the column list taken from the object the query loaded
ExportQuery(urn) ==
    /\ export.pc = "idle"
    /\ export' =
          IF urn \notin DOMAIN scoresets
          THEN [NoExport EXCEPT !.pc = "failed", !.urn = urn, !.err = "404"]
          ELSE [NoExport EXCEPT
                  !.pc = "rows", !.urn = urn,
                  !.columns = <<"accession", "hgvs_nt", "hgvs_pro", "hgvs_splice">>
                                \o SetToSeq(scoresets[urn].dataset_columns.score_columns),
                  !.score_columns = scoresets[urn].dataset_columns.score_columns,
                  !.variants_at_query = Accessions(VariantsOf(variants, urn))]
    /\ UNCHANGED <<scoresets, variants, pc, item, variants_data, columns,
                   variant_urns, pending, err, attempts, upload, calls, history,
                   lastFail, call, keywords>>

\* lines 103-112: scoreset.variants is loaded by a SELECT of its own when it
\* is first used, and the rows are formatted and returned
ExportRows ==
    /\ export.pc = "rows"
    /\ LET res == FormatCsvRows(VariantsOf(variants, export.urn), export.columns,
                                "score_data")
       IN  export' = [export EXCEPT
                        !.pc = IF res.ok THEN "done" ELSE "failed",
                        !.err = res.error,
                        !.rows = res.rows,
                        !.loaded = VariantsOf(variants, export.urn),
                        !.manifest_at_load =
                            scoresets[export.urn].dataset_columns.score_columns]
    /\ UNCHANGED <<scoresets, variants, pc, item, variants_data, columns,
                   variant_urns, pending, err, attempts, upload, calls, history,
                   lastFail, call, keywords>>

\* the characters of a variant's urn "{parent}#{k}": the parent's urn (kept
\* as one piece), the "#" and the digits of k
UrnText(urn) ==
    LET pk == CHOOSE pk \in StoredUrns \X (0..(MaxCounter + MaxRows + 1)) :
                  ChildUrn(pk[1], pk[2]) = urn
    IN  <<pk[1], "#">> \o IntToToken(pk[2])

\* lines 104-109: csv.DictWriter writes the header and one line per row, the
\* cells in the order of fieldnames (no cell of the model needs quoting)
WriteCsv(cols, rows) ==
    [header |-> cols,
     lines |-> [i \in DOMAIN rows |->
                  [k \in DOMAIN cols |->
                      IF cols[k] = "accession" THEN UrnText(rows[i][cols[k]])
                      ELSE rows[i][cols[k]]]]]

\* comment='#': pd.read_csv drops a line from its first "#" on; the fields
\* the line no longer has are read as missing
CutAtComment(line) ==
    LET Hash(k) == \E j \in DOMAIN line[k] : line[k][j] = "#"
        BeforeHash(cell) ==
            SubSeq(cell, 1, (CHOOSE j \in DOMAIN cell :
                                /\ cell[j] = "#"
                                /\ \A h \in 1..(j - 1) : cell[h] # "#") - 1)
    IN  IF \E k \in DOMAIN line : Hash(k)
        THEN LET first == CHOOSE k \in DOMAIN line :
                              Hash(k) /\ \A h \in 1..(k - 1) : ~Hash(h)
             IN  [k \in DOMAIN line |->
                    IF k < first THEN line[k]
                    ELSE IF k = first THEN BeforeHash(line[k])
                    ELSE <<>>]
        ELSE line

\* the exported text as the table pd.read_csv is given on an upload
ExportedFile(text) ==
    [present |-> TRUE, parsable |-> TRUE, header |-> SeqToSet(text.header),
     rows |-> [i \in DOMAIN text.lines |->
                 LET line == CutAtComment(text.lines[i])
                 IN  [c \in SeqToSet(text.header) |->
                        line[CHOOSE k \in DOMAIN text.header : text.header[k] = c]]]]

\* lines 208-226 applied to the text fetch_scoreset_scores returned
Reload(cols, rows) == AddHgvsColumns(ReadCsv(ExportedFile(WriteCsv(cols, rows))))


----------------------------------------------------------------------------
(* Requests running concurrently, each in its own session. *)

NoCall == [op |-> "", n |-> 0, reset_counter |-> FALSE, scoreset |-> NoItem,
           urns |-> <<>>, result |-> NoItem]

Init ==
    /\ scoresets = [u \in StoredUrns |->
                      [private |-> u \in PrivateUrns, num_variants |-> 0,
                       dataset_columns |-> NoColumns]]
    /\ variants = <<>>
    /\ pc = [r \in Requests |-> "idle"]
    /\ item = [r \in Requests |-> NoItem]
    /\ variants_data = [r \in Requests |-> <<>>]
    /\ columns = [r \in Requests |-> NoColumns]
    /\ variant_urns = [r \in Requests |-> <<>>]
    /\ pending = [r \in Requests |-> <<>>]
    /\ err = [r \in Requests |-> ""]
    /\ attempts = [r \in Requests |-> 0]
    /\ upload = [r \in Requests |-> NoUpload]
    /\ calls = 0
    /\ history = <<>>
    /\ lastFail = NoFail
    /\ call = NoCall
    /\ export = NoExport
    /\ keywords = NoKeywords

\* a call whose urn the query does not find ends at line 198, whatever its
\* files are; any other call goes on with the files it was given
Upload(r) ==
    /\ calls < MaxUploads
    /\ \E urn \in RequestUrns :
          IF QueryScoreset(scoresets, urn).found
          THEN \E i \in DOMAIN ScoresFileSeq, j \in DOMAIN CountsFileSeq :
                  BeginLoaded(r, urn, Prepared[i][j])
          ELSE BeginLoaded(r, urn, Prepared[1][1])

Next ==
    \E r \in Requests :
        \/ Upload(r)
        \/ CreateUrns(r)
        \/ SaveVariants(r)
        \/ SetColumns(r)
        \/ Commit(r)
        \/ Fail(r, FALSE)

Spec == Init /\ [][Next]_vars

----------------------------------------------------------------------------
(* Requests served one after the other: each call is a new request with a   *)
(* session of its own, and it starts when the one before it has ended.     *)

Served == "r1"

UploadSeq(r) ==
    /\ calls < MaxSeqUploads
    /\ \E urn \in RequestUrns :
          IF QueryScoreset(scoresets, urn).found
          THEN \E i \in DOMAIN ScoresFileSeq, j \in DOMAIN CountsFileSeq :
                  BeginLoaded(r, urn, Prepared[i][j])
          ELSE BeginLoaded(r, urn, Prepared[1][1])

NextSeq ==
    \/ UploadSeq(Served)
    \/ CreateUrns(Served)
    \/ SaveVariants(Served)
    \/ SetColumns(Served)
    \/ Commit(Served)
    \/ Fail(Served, TRUE)

SpecSeq == Init /\ [][NextSeq]_vars

----------------------------------------------------------------------------
(* bulk_create_urns called directly on a Scoreset object. *)

InitUrns ==
    /\ scoresets = [u \in StoredUrns |->
                      [private |-> u \in PrivateUrns, num_variants |-> 0,
                       dataset_columns |-> NoColumns]]
    /\ variants = <<>>
    /\ pc = [r \in Requests |-> "idle"]
    /\ \E u \in StoredUrns, c \in 0..MaxCounter :
          item = [r \in Requests |->
                    IF r = Served
                    THEN [found |-> TRUE, urn |-> u, private |-> u \in PrivateUrns,
                          num_variants |-> c, dataset_columns |-> NoColumns]
                    ELSE NoItem]
    /\ variants_data = [r \in Requests |-> <<>>]
    /\ columns = [r \in Requests |-> NoColumns]
    /\ variant_urns = [r \in Requests |-> <<>>]
    /\ pending = [r \in Requests |-> <<>>]
    /\ err = [r \in Requests |-> ""]
    /\ attempts = [r \in Requests |-> 0]
    /\ upload = [r \in Requests |-> NoUpload]
    /\ calls = 0
    /\ history = <<>>
    /\ lastFail = NoFail
    /\ call = NoCall
    /\ export = NoExport
    /\ keywords = NoKeywords

CallBulkCreateUrns(n, reset_counter) ==
    /\ item[Served].num_variants <= MaxCounter
    /\ LET res == BulkCreateUrns(n, item[Served], reset_counter)
       IN  /\ item' = [item EXCEPT ![Served] = res.scoreset]
           /\ call' = [op |-> "bulk_create_urns", n |-> n,
                       reset_counter |-> reset_counter,
                       scoreset |-> item[Served], urns |-> res.urns,
                       result |-> res.scoreset]
    /\ UNCHANGED <<scoresets, variants, pc, variants_data, columns, variant_urns,
                   pending, err, attempts, upload, calls, history, lastFail, export,
                   keywords>>

NextUrns ==
    \E n \in 0..(MaxRows + 1), reset_counter \in BOOLEAN :
        CallBulkCreateUrns(n, reset_counter)

SpecUrns == InitUrns /\ [][NextUrns]_vars

----------------------------------------------------------------------------
(* is_null called directly on a value. *)

NullChars == {"n", "a", "i", "l", "N", " "}

LongTokens ==
    {<<"n", "o", "n", "e">>, <<"N", "o", "n", "e">>, <<"N", "O", "N", "E">>,
     <<"u", "n", "d", "e", "f", "i", "n", "e", "d">>, <<"U", "n", "d", "e", "f", "i", "n", "e", "d">>, <<"n", "/", "a">>,
     <<"N", "/", "A">>, <<"n", "u", "l", "l">>, <<"N", "U", "L", "L">>,
     <<" ", "n", "u", "l", "l", " ">>, <<"n", "u", "l", "l", "s">>, <<"v", "a", "n", "i", "l", "l", "a">>,
     <<"f", "i", "n", "a", "l">>, <<"n", "a", "n", "a">>, <<"n", "/", "a", "n">>}

NullInputs ==
    {StrValue(t) : t \in SeqsUpTo(NullChars, MaxTokenLen) \cup LongTokens}
        \cup {NaN} \cup {NumValue(n) : n \in 0..MaxCounter}

CallIsNull(value) ==
    /\ call = NoCall
    /\ call' = [op |-> "is_null", value |-> value, result |-> IsNull(value)]
    /\ UNCHANGED <<scoresets, variants, pc, item, variants_data, columns,
                   variant_urns, pending, err, attempts, upload, calls, history,
                   lastFail, export, keywords>>

NextNull == \E value \in NullInputs : CallIsNull(value)

SpecNull == Init /\ [][NextNull]_vars

----------------------------------------------------------------------------
(* The loader applied to one uploaded table (lines 208-226). *)

CallLoad(file) ==
    /\ call = NoCall
    /\ LET csv == ReadCsv(file)
           df == AddHgvsColumns(csv)
       IN  call' = [op |-> "load", file |-> file, ok |-> csv.ok,
                    error |-> csv.error, df |-> df,
                    value_columns |-> DataColumns(df)]
    /\ UNCHANGED <<scoresets, variants, pc, item, variants_data, columns,
                   variant_urns, pending, err, attempts, upload, calls, history,
                   lastFail, export, keywords>>

NextLoader == \E file \in LoaderFiles : CallLoad(file)

SpecLoader == Init /\ [][NextLoader]_vars

----------------------------------------------------------------------------
(* One upload whose scores table has cells of every kind. *)

CellScoresFiles == {file \in LoaderFiles : "hgvs_nt" \in file.header}

UploadCells(r) ==
    /\ calls < MaxCellUploads
    /\ \E scores_file \in CellScoresFiles : Begin(r, "urn:1", scores_file, NoFile)

NextCells ==
    \/ UploadCells(Served)
    \/ CreateUrns(Served)
    \/ SaveVariants(Served)
    \/ SetColumns(Served)
    \/ Commit(Served)
    \/ Fail(Served, FALSE)

SpecCells == Init /\ [][NextCells]_vars

----------------------------------------------------------------------------
(* An export that runs while uploads to the same dataset are served. *)

ExportScoresFiles ==
    {FileOf({"hgvs_nt", "score"}, <<<<"c", ".", "1", "A", ">", "G">>>>),
     FileOf({"hgvs_nt", "score", "se"}, <<<<"c", ".", "2", "C", ">", "T">>>>)}

ExportUrns == {"urn:1", "urn:9"}

UploadExport(r) ==
    /\ calls < MaxExportUploads
    /\ \E scores_file \in ExportScoresFiles : Begin(r, "urn:1", scores_file, NoFile)

NextExport ==
    \/ UploadExport(Served)
    \/ CreateUrns(Served)
    \/ SaveVariants(Served)
    \/ SetColumns(Served)
    \/ Commit(Served)
    \/ Fail(Served, FALSE)
    \/ \E urn \in ExportUrns : ExportQuery(urn)
    \/ ExportRows

SpecExport == Init /\ [][NextExport]_vars

----------------------------------------------------------------------------
(* format_csv_rows called directly on a list of variants. *)

FormatTriples ==
    {<<StrValue(<<"c", ".", "1", "A", ">", "G">>), NaN, NaN>>,
     <<StrValue(<<"c", ".", "2", "C", ">", "T">>), StrValue(<<"p", ".", "=">>), NaN>>}

FormatValues == {NaN, NumValue(1), StrValue(<<"a", "b", "c">>)}

\* score_data maps with no column, with score, and with score and se
FormatDataMaps ==
    UNION {[cs -> FormatValues] : cs \in {{}, {"score"}, {"score", "se"}}}

FormatVariantsData ==
    {VariantDataOf(t, d, EmptyData) : t \in FormatTriples, d \in FormatDataMaps}

\* the variants of scoreset urn:1 made of a list of such data
FormatVariants(data) ==
    NewVariants([i \in DOMAIN data |-> ChildUrn("urn:1", i)], [urn |-> "urn:1"], data)

FormatColumns ==
    {<<"accession", "hgvs_nt", "hgvs_pro", "hgvs_splice">> \o cs :
        cs \in {<<>>, <<"score">>, <<"score", "se">>, <<"se", "score">>}}

CallFormat(vs, cols) ==
    /\ call = NoCall
    /\ call' = [op |-> "format_csv_rows", variants |-> vs, columns |-> cols,
                dtype |-> "score_data",
                result |-> FormatCsvRows(vs, cols, "score_data")]
    /\ UNCHANGED <<scoresets, variants, pc, item, variants_data, columns,
                   variant_urns, pending, err, attempts, upload, calls, history,
                   lastFail, export, keywords>>

NextFormat ==
    \E n \in 0..MaxFormatRows :
        \E data \in [1..n -> FormatVariantsData], cols \in FormatColumns :
            CallFormat(FormatVariants(data), cols)

SpecFormat == Init /\ [][NextFormat]_vars

----------------------------------------------------------------------------
(* Concurrent uploads addressed to public, private and unknown urns. *)

AddressedFiles == ExportScoresFiles \cup {BadFile}

\* the call POST /{urn}/variants/data of request r
Addressed(r, urn) ==
    \E scores_file \in AddressedFiles : Begin(r, urn, scores_file, NoFile)

UploadAddressed(r) ==
    /\ calls < MaxAddressedUploads
    /\ \E urn \in RequestUrns : Addressed(r, urn)

NextAddressed ==
    \E r \in Requests :
        \/ UploadAddressed(r)
        \/ CreateUrns(r)
        \/ SaveVariants(r)
        \/ SetColumns(r)
        \/ Commit(r)
        \/ Fail(r, FALSE)

SpecAddressed == Init /\ [][NextAddressed]_vars

----------------------------------------------------------------------------
(* The publication identifier endpoints that take a db name and an         *)
(* identifier.                                                             *)

\* Model.column == value: a SQL comparison object holding its two operands,
\* the column and the bound parameter made of the value
Eq(column, value) ==
    [column |-> column, value |-> value,
     left |-> "Column:" \o column, right |-> "BindParameter"]

\* bool() of a comparison object built by ==: whether its two operands,
\* the column and the bound parameter, have the same hash
ClauseBool(c) == c.left = c.right

\* Python's `a and b`: a when bool(a) is false, b otherwise
PyAnd(a, b) == IF ClauseBool(a) THEN {b} ELSE {a}

\* query.filter(clauses) over the stored rows
Filter(store, clauses) == {p \in store : \A c \in clauses : p[c.column] = c.value}

\* lines 65-84: one_or_none(), MultipleResultsFound -> 500, nothing -> 404
FetchPublicationByDbnameAndIdentifier(store, db_name, identifier) ==
    LET found == Filter(store, PyAnd(Eq("identifier", identifier),
                                     Eq("db_name", db_name)))
    IN  IF Cardinality(found) > 1 THEN [status |-> 500, items |-> {}]
        ELSE IF found = {} THEN [status |-> 404, items |-> {}]
        ELSE [status |-> 200, items |-> found]

\* lines 206-217: all(), nothing -> 404
SearchPublicationsByIdentifierAndDb(store, db_name, identifier) ==
    LET found == Filter(store, PyAnd(Eq("identifier", identifier),
                                     Eq("db_name", db_name)))
    IN  IF found = {} THEN [status |-> 404, items |-> {}]
        ELSE [status |-> 200, items |-> found]

PublicationDbNames == {"PubMed", "bioRxiv"}

PublicationIds == {"1", "2", "3"}

Publications == [identifier : PublicationIds, db_name : PublicationDbNames]

PublicationStores == {st \in SUBSET Publications : Cardinality(st) <= MaxPublications}

CallFetchPublication(store, db_name, identifier) ==
    /\ call = NoCall
    /\ call' = [op |-> "fetch_publication", store |-> store, db_name |-> db_name,
                identifier |-> identifier,
                result |-> FetchPublicationByDbnameAndIdentifier(store, db_name,
                                                                 identifier)]
    /\ UNCHANGED <<scoresets, variants, pc, item, variants_data, columns,
                   variant_urns, pending, err, attempts, upload, calls, history,
                   lastFail, export, keywords>>

CallSearchPublications(store, db_name, identifier) ==
    /\ call = NoCall
    /\ call' = [op |-> "search_publications", store |-> store, db_name |-> db_name,
                identifier |-> identifier,
                result |-> SearchPublicationsByIdentifierAndDb(store, db_name,
                                                               identifier)]
    /\ UNCHANGED <<scoresets, variants, pc, item, variants_data, columns,
                   variant_urns, pending, err, attempts, upload, calls, history,
                   lastFail, export, keywords>>

NextPublications ==
    \E store \in PublicationStores, db_name \in PublicationDbNames,
       identifier \in PublicationIds :
        \/ CallFetchPublication(store, db_name, identifier)
        \/ CallSearchPublications(store, db_name, identifier)

SpecPublications == Init /\ [][NextPublications]_vars

----------------------------------------------------------------------------
(* target_genes_by_field for the organism field.                           *)

Organisms == {"Homo sapiens", "Homo Sapiens", "Mus musculus"}

\* the number of targets a query counts: all of them, or only those of
\* published score sets
Counted(n, only_published) == IF only_published THEN n.published
                              ELSE n.published + n.unpublished

\* the groups of GROUP BY organism_name: one row per organism that has
\* sequence-based targets, in no particular order
OrganismRows(seq_targets, only_published) ==
    LET present == {o \in Organisms : Counted(seq_targets[o], only_published) > 0}
    IN  {[i \in 1..Cardinality(present) |->
            <<order[i], Counted(seq_targets[order[i]], only_published)>>] :
         order \in {f \in [1..Cardinality(present) -> present] :
                       \A i, j \in 1..Cardinality(present) : f[i] = f[j] => i = j}}

\* one turn of the loop of lines 192-199 on the dict organism_counts
CountOrganism(acc, row, accession_count) ==
    LET organism == row[1]
        counts == acc.counts
        added == IF organism \in DOMAIN counts
                 THEN [counts EXCEPT ![organism] = @ + row[2]]
                 ELSE [o \in DOMAIN counts \cup {organism} |->
                         IF o = organism THEN row[2] ELSE counts[o]]
    IN  IF ~acc.ok THEN acc
        ELSE IF organism = "Homo Sapiens"
        THEN IF "Homo sapiens" \in DOMAIN added
             THEN [ok |-> TRUE, error |-> "",
                   counts |-> [added EXCEPT !["Homo sapiens"] = @ + accession_count]]
             ELSE [ok |-> FALSE, error |-> "KeyError", counts |-> added]
        ELSE [ok |-> TRUE, error |-> "", counts |-> added]

RECURSIVE CountOrganisms(_, _, _)
CountOrganisms(acc, rows, accession_count) ==
    IF rows = <<>> THEN acc
    ELSE CountOrganisms(CountOrganism(acc, Head(rows), accession_count), Tail(rows),
                        accession_count)

\* lines 168-205: the organism branch of target_genes_by_field
TargetGenesByOrganism(rows, accession_count) ==
    LET looped == CountOrganisms([ok |-> TRUE, error |-> "", counts |-> <<>>], rows,
                                 accession_count)
    IN  IF ~looped.ok THEN looped
        ELSE IF "Homo sapiens" \notin DOMAIN looped.counts /\ accession_count # 0
        THEN [looped EXCEPT !.counts =
                [o \in DOMAIN looped.counts \cup {"Homo sapiens"} |->
                    IF o = "Homo sapiens" THEN accession_count
                    ELSE looped.counts[o]]]
        ELSE looped

TargetCounts == [published : 0..MaxTargets, unpublished : 0..MaxTargets]

CallTargetGenesByOrganism(seq_targets, accession_targets, only_published) ==
    /\ call = NoCall
    /\ \E rows \in OrganismRows(seq_targets, only_published) :
          call' = [op |-> "target_genes_by_field", field |-> "organism",
                   seq_targets |-> seq_targets,
                   accession_targets |-> accession_targets,
                   only_published |-> only_published, rows |-> rows,
                   result |-> TargetGenesByOrganism(
                                  rows, Counted(accession_targets, only_published))]
    /\ UNCHANGED <<scoresets, variants, pc, item, variants_data, columns,
                   variant_urns, pending, err, attempts, upload, calls, history,
                   lastFail, export, keywords>>

NextStatistics ==
    \E seq_targets \in [Organisms -> TargetCounts], accession_targets \in TargetCounts,
       only_published \in BOOLEAN :
        CallTargetGenesByOrganism(seq_targets, accession_targets, only_published)

SpecStatistics == Init /\ [][NextStatistics]_vars

----------------------------------------------------------------------------
(* The TargetAccession view model: its fields are validated in the order   *)
(* of their declaration, accession, assembly, gene.                        *)

\* a field of the input: left out, null, a value that is no string, or text
Omitted == [kind |-> "omitted", text |-> ""]

Null == [kind |-> "null", text |-> ""]

NotAString == [kind |-> "list", text |-> ""]

Text(t) == [kind |-> "str", text |-> t]

\* Optional[str]: a field that is left out gets its default None without
\* being validated, null is None, text is kept, anything else is an error
OptionalStr(input) ==
    CASE input.kind \in {"omitted", "null"} -> [ok |-> TRUE, value |-> Null]
      [] input.kind = "str" -> [ok |-> TRUE, value |-> input]
      [] OTHER -> [ok |-> FALSE, value |-> Null]

\* the validator's message (its two names are in backquotes in the source)
GeneOrAssemblyError == "either a 'gene' or 'assembly' is required"

\* lines 12-16: `not gene` is true for None and for ""
CheckGeneOrAssembly(gene, values) ==
    IF "assembly" \notin values /\ (gene.kind = "null" \/ gene.text = "")
    THEN [ok |-> FALSE, error |-> GeneOrAssemblyError]
    ELSE [ok |-> TRUE, error |-> ""]

\* TargetAccessionBase(**input): `values` holds the fields validated so far,
\* those that got their default included and those that failed left out;
\* the validator of gene runs also when gene is left out (always=True)
TargetAccessionBase(input) ==
    LET accession_ok == input.accession.kind = "str"
        assembly == OptionalStr(input.assembly)
        gene == OptionalStr(input.gene)
        values == (IF accession_ok THEN {"accession"} ELSE {})
                     \cup (IF assembly.ok THEN {"assembly"} ELSE {})
        checked == CheckGeneOrAssembly(gene.value, values)
        errors == (IF accession_ok THEN {} ELSE {"accession: str required"})
                     \cup (IF assembly.ok THEN {} ELSE {"assembly: str type expected"})
                     \cup (IF gene.ok THEN {} ELSE {"gene: str type expected"})
                     \cup (IF gene.ok /\ ~checked.ok THEN {checked.error} ELSE {})
    IN  [accepted |-> errors = {}, errors |-> errors]

AccessionInputs == {Omitted, Text("NC_000001.11"), Text("NM_007294.4")}

AssemblyInputs == {Omitted, Null, NotAString, Text(""), Text("GRCh37"), Text("GRCh38")}

GeneInputs == {Omitted, Null, NotAString, Text(""), Text("BRCA1"), Text("TP53")}

CallTargetAccession(input) ==
    /\ call = NoCall
    /\ call' = [op |-> "TargetAccessionBase", input |-> input,
                result |-> TargetAccessionBase(input)]
    /\ UNCHANGED <<scoresets, variants, pc, item, variants_data, columns,
                   variant_urns, pending, err, attempts, upload, calls, history,
                   lastFail, export, keywords>>

NextTargetAccession ==
    \E input \in [accession : AccessionInputs, assembly : AssemblyInputs,
                  gene : GeneInputs] :
        CallTargetAccession(input)

SpecTargetAccession == Init /\ [][NextTargetAccession]_vars

----------------------------------------------------------------------------
(* Experiment.set_keywords and the commit of the request that called it.   *)

KeywordTexts == {"kinase", "splicing"}

ExperimentUrns == {"exp:1", "exp:2"}

\* db.query(Keyword).filter(Keyword.text == keyword_text).one_or_none() and
\* the Keyword made when there is none: the new object is not added to the
\* session, so a later query of the same call does not see it. id 0 marks
\* an object that has no row yet.
FindOrCreateKeyword(rows, keyword_text) ==
    LET found == {k \in DOMAIN rows : rows[k] = keyword_text}
    IN  IF Cardinality(found) > 1
        THEN [ok |-> FALSE, error |-> "MultipleResultsFound", id |-> 0,
              text |-> keyword_text]
        ELSE IF found = {}
        THEN [ok |-> TRUE, error |-> "", id |-> 0, text |-> keyword_text]
        ELSE [ok |-> TRUE, error |-> "", id |-> CHOOSE k \in found : TRUE,
              text |-> keyword_text]

\* self.keyword_objs = [await self._find_or_create_keyword(db, text) for text in keywords]
SetKeywords(r, e, texts) ==
    /\ keywords.calls < MaxKeywordCalls
    /\ keywords.sessions[r].pc # "set"
    /\ LET objs == [i \in DOMAIN texts |-> FindOrCreateKeyword(keywords.rows, texts[i])]
           failed == \E i \in DOMAIN objs : ~objs[i].ok
       IN  keywords' = [keywords EXCEPT
              !.calls = @ + 1,
              !.sessions[r] =
                  IF failed
                  THEN [NoSession EXCEPT !.pc = "failed", !.experiment = e,
                                         !.texts = texts,
                                         !.err = "MultipleResultsFound"]
                  ELSE [pc |-> "set", experiment |-> e, texts |-> texts,
                        keyword_objs |-> objs, err |-> ""]]
    /\ UNCHANGED <<scoresets, variants, pc, item, variants_data, columns,
                   variant_urns, pending, err, attempts, upload, calls, history,
                   lastFail, call, export>>

\* db.add(item); db.commit(): every Keyword object without a row is
\* inserted, in list order, and the experiment's keyword list is replaced by
\* the session's; on a table whose text column is unique the INSERT of a
\* text that has a row raises IntegrityError and nothing is committed
CommitExperiment(r) ==
    /\ keywords.sessions[r].pc = "set"
    /\ LET ses == keywords.sessions[r]
           objs == ses.keyword_objs
           new == SelectSeq(objs, LAMBDA o : o.id = 0)
           rows == keywords.rows \o [i \in DOMAIN new |-> new[i].text]
           NewBefore(i) == Cardinality({j \in 1..i : objs[j].id = 0})
           ids == [i \in DOMAIN objs |->
                     IF objs[i].id = 0 THEN Len(keywords.rows) + NewBefore(i)
                     ELSE objs[i].id]
           clash == \E i, j \in DOMAIN rows : i # j /\ rows[i] = rows[j]
       IN  IF keywords.unique /\ clash
           THEN keywords' = [keywords EXCEPT
                   !.sessions[r] = [ses EXCEPT !.pc = "failed",
                                               !.err = "IntegrityError",
                                               !.keyword_objs = <<>>]]
           ELSE keywords' = [keywords EXCEPT
                   !.rows = rows,
                   !.experiments[ses.experiment] = ids,
                   !.sessions[r] = [ses EXCEPT !.pc = "done", !.keyword_objs = <<>>]]
    /\ UNCHANGED <<scoresets, variants, pc, item, variants_data, columns,
                   variant_urns, pending, err, attempts, upload, calls, history,
                   lastFail, call, export>>

\* the keywords property: the texts of the experiment's keyword objects
Keywords(e) == [i \in DOMAIN keywords.experiments[e] |->
                  keywords.rows[keywords.experiments[e][i]]]

\* a table with at most one row per text, with or without a unique text
InitKeywords ==
    /\ scoresets = [u \in StoredUrns |->
                      [private |-> u \in PrivateUrns, num_variants |-> 0,
                       dataset_columns |-> NoColumns]]
    /\ variants = <<>>
    /\ pc = [r \in Requests |-> "idle"]
    /\ item = [r \in Requests |-> NoItem]
    /\ variants_data = [r \in Requests |-> <<>>]
    /\ columns = [r \in Requests |-> NoColumns]
    /\ variant_urns = [r \in Requests |-> <<>>]
    /\ pending = [r \in Requests |-> <<>>]
    /\ err = [r \in Requests |-> ""]
    /\ attempts = [r \in Requests |-> 0]
    /\ upload = [r \in Requests |-> NoUpload]
    /\ calls = 0
    /\ history = <<>>
    /\ lastFail = NoFail
    /\ call = NoCall
    /\ export = NoExport
    /\ \E unique \in BOOLEAN, rows \in {<<>>, <<"kinase">>} :
          keywords = [NoKeywords EXCEPT !.unique = unique, !.rows = rows]

NextKeywords ==
    \E r \in Requests :
        \/ \E e \in ExperimentUrns, texts \in SeqsUpTo(KeywordTexts, MaxKeywords) :
              SetKeywords(r, e, texts)
        \/ CommitExperiment(r)

SpecKeywords == InitKeywords /\ [][NextKeywords]_vars

----------------------------------------------------------------------------
(* update_scoreset and update_experiment on the scalar fields of a record. *)

PyNone == [kind |-> "none", num |-> 0, text |-> <<>>]

PyBool(b) == [kind |-> "bool", num |-> IF b THEN 1 ELSE 0, text |-> <<>>]

\* Python's truth value: None, False, 0 and "" are false
Truthy(value) ==
    CASE value.kind = "none" -> FALSE
      [] value.kind \in {"bool", "num"} -> value.num # 0
      [] value.kind = "str" -> value.text # <<>>
      [] OTHER -> TRUE

\* an update that assigns every value it carries
SetTruthyAttrsAll(fields, pairs) ==
    [f \in DOMAIN fields |-> IF f \in DOMAIN pairs THEN pairs[f] ELSE fields[f]]

\* for var, value in pairs.items(): setattr(item, var, value) if value else None
SetTruthyAttrs(fields, pairs) ==
    [f \in DOMAIN fields |->
        IF f \in DOMAIN pairs /\ Truthy(pairs[f]) THEN pairs[f] ELSE fields[f]]

\* .filter(urn == urn).filter(private.is_(False)).one_or_none() on a table
\* keyed by urn
QueryPublic(store, urn) == urn \in DOMAIN store /\ store[urn]["private"].num = 0

\* lines 311-331 of scoresets.py and 129-161 of experiments.py: None when the
\* query finds nothing; otherwise the truthy values are assigned and the
\* record is committed. The values vars(item_update) holds besides the
\* scalar ones (target_gene, the identifier lists, keywords) are assigned or
\* reconciled by code that is not part of these lines: assigned says
\* whether that went through; when it did not, the call raises before
\* db.commit() and nothing is stored.
UpdateRecord(store, urn, pairs, assigned) ==
    IF ~QueryPublic(store, urn) THEN [found |-> FALSE, raised |-> FALSE, store |-> store]
    ELSE IF ~assigned THEN [found |-> TRUE, raised |-> TRUE, store |-> store]
    ELSE [found |-> TRUE, raised |-> FALSE,
          store |-> [store EXCEPT ![urn] = SetTruthyAttrs(store[urn], pairs)]]

RecordUrns == {"urn:1", "urn:9"}

UpdateStores ==
    {[u \in {"urn:1"} |->
        [title |-> StrValue(<<"A">>), licence_id |-> l, private |-> p]] :
            l \in {PyNone, NumValue(1)}, p \in {PyBool(FALSE), PyBool(TRUE)}}

UpdatePairs ==
    [title : {StrValue(<<>>), StrValue(<<"B">>)},
     licence_id : {PyNone, NumValue(0), NumValue(2)},
     private : {PyNone, PyBool(FALSE), PyBool(TRUE)}]

CallUpdate(op, store, urn, pairs, assigned) ==
    /\ call = NoCall
    /\ call' = [op |-> op, store |-> store, urn |-> urn, pairs |-> pairs,
                result |-> UpdateRecord(store, urn, pairs, assigned)]
    /\ UNCHANGED <<scoresets, variants, pc, item, variants_data, columns,
                   variant_urns, pending, err, attempts, upload, calls, history,
                   lastFail, export, keywords>>

NextUpdate ==
    \E op \in {"update_scoreset", "update_experiment"}, store \in UpdateStores,
       urn \in RecordUrns, pairs \in UpdatePairs, assigned \in BOOLEAN :
        CallUpdate(op, store, urn, pairs, assigned)

SpecUpdate == Init /\ [][NextUpdate]_vars

----------------------------------------------------------------------------
(* The read endpoints on a table that holds a private scoreset with        *)
(* variants.                                                               *)

\* lines 64-74: the filtered query, 404 when it finds nothing
FetchScoreset(tbl, urn) ==
    LET found == QueryScoreset(tbl, urn)
    IN  IF found.found THEN [status |-> 200, item |-> found]
        ELSE [status |-> 404, item |-> NoItem]

CallFetchScoreset(urn) ==
    /\ call = NoCall
    /\ call' = [op |-> "fetch_scoreset", urn |-> urn,
                result |-> FetchScoreset(scoresets, urn)]
    /\ UNCHANGED <<scoresets, variants, pc, item, variants_data, columns,
                   variant_urns, pending, err, attempts, upload, calls, history,
                   lastFail, export, keywords>>

PrivateVariantsData ==
    {VariantDataOf(t, [c \in {"score"} |-> v], EmptyData) :
        t \in FormatTriples, v \in FormatValues}

\* the rows of a private scoreset: its flag is a column of the table, and
\* nothing in the router sets or clears it
InitPrivate ==
    /\ \E n \in 0..MaxPrivateRows : \E data \in [1..n -> PrivateVariantsData] :
        /\ scoresets = [u \in StoredUrns |->
                          [private |-> u \in PrivateUrns,
                           num_variants |-> IF u \in PrivateUrns THEN n ELSE 0,
                           dataset_columns |->
                               IF u \in PrivateUrns
                               THEN [score_columns |-> {"score"}, count_columns |-> {}]
                               ELSE NoColumns]]
        /\ variants = NewVariants([i \in 1..n |-> ChildUrn("urn:3", i)],
                                  [urn |-> "urn:3"], data)
    /\ pc = [r \in Requests |-> "idle"]
    /\ item = [r \in Requests |-> NoItem]
    /\ variants_data = [r \in Requests |-> <<>>]
    /\ columns = [r \in Requests |-> NoColumns]
    /\ variant_urns = [r \in Requests |-> <<>>]
    /\ pending = [r \in Requests |-> <<>>]
    /\ err = [r \in Requests |-> ""]
    /\ attempts = [r \in Requests |-> 0]
    /\ upload = [r \in Requests |-> NoUpload]
    /\ calls = 0
    /\ history = <<>>
    /\ lastFail = NoFail
    /\ call = NoCall
    /\ export = NoExport
    /\ keywords = NoKeywords

NextPrivate ==
    \/ \E urn \in RequestUrns : CallFetchScoreset(urn)
    \/ \E urn \in RequestUrns : ExportQuery(urn)
    \/ ExportRows

SpecPrivate == InitPrivate /\ [][NextPrivate]_vars

----------------------------------------------------------------------------
(* Claims. *)

\* C1: bulk_create_urns(n, scoreset, reset_counter) returns exactly n urns, the
\* i-th being "{scoreset.urn}#{start+i}", where start is 0 when reset_counter
\* is true and the object's num_variants otherwise, and the same call leaves
\* the object's num_variants at start+n (for n = 0: no urn, counter = start).
C1_BulkCreateUrns ==
    call.op = "bulk_create_urns" =>
        LET start == IF call.reset_counter THEN 0 ELSE call.scoreset.num_variants
        IN  /\ Len(call.urns) = call.n
            /\ \A i \in 1..call.n :
                  call.urns[i] = call.scoreset.urn \o "#" \o ToString(start + i)
            /\ call.result.num_variants = start + call.n
            /\ item[Served].num_variants = start + call.n
            /\ item[Served].urn = call.scoreset.urn

C1_Witness ==
    /\ call.op = "bulk_create_urns"
    /\ call.reset_counter
    /\ call.scoreset.num_variants = 3
    /\ call.n = 2
    /\ call.urns = <<"urn:2#1", "urn:2#2">>

\* C2: in a sequence of successful ingestions of one dataset, run one after
\* the other, the urns created by two different ingestions are disjoint.
C2_NoUrnReissued ==
    \A i, j \in DOMAIN history :
        (i < j /\ history[i].urn = history[j].urn) =>
            SeqToSet(history[i].urns) \cap SeqToSet(history[j].urns) = {}

C2_Witness ==
    /\ Len(history) = 3
    /\ \A i \in 1..3 : history[i].urn = "urn:1" /\ Len(history[i].urns) = 2

\* C3: after a successful re-ingestion of a dataset that had persisted
\* variants, the dataset's variants are exactly those of the new batch.
C3_ReingestionReplacesVariants ==
    (history # <<>> /\ Last(history).had_variants) =>
        LET vs == VariantsOf(variants, Last(history).urn)
        IN  [i \in DOMAIN vs |-> vs[i].urn] = Last(history).urns

\* C4: a step that is not the successful commit of an upload, and so every
\* step of an upload that fails (in create_variants, in the manifest update
\* or in db.commit()), leaves the committed counter, manifest and variants
\* unchanged; the successful commit makes the counter, the manifest and the
\* whole batch of variants visible in one step.
C4_AllOrNothing ==
    [][ /\ (\A r \in Requests : ~(pc[r] = "commit" /\ pc'[r] = "done")) =>
              (scoresets' = scoresets /\ variants' = variants)
        /\ \A r \in Requests :
              (pc[r] = "commit" /\ pc'[r] = "done") =>
                  /\ scoresets'[item[r].urn].num_variants = item[r].num_variants
                  /\ scoresets'[item[r].urn].dataset_columns = columns[r]
                  /\ \A u \in StoredUrns \ {item[r].urn} :
                        scoresets'[u] = scoresets[u]
                  /\ Len(variants') = Len(variants) + Len(variants_data[r])
                  /\ SubSeq(variants', 1, Len(variants)) = variants
       ]_vars

C4_Witness ==
    \E r, q \in Requests :
        /\ pc[r] = "failed" /\ err[r] = "Exception:commit"
        /\ pc[q] = "failed" /\ err[q] = "Exception:columns"
        /\ variants = <<>>

\* C5: an ingestion that follows one that failed after bulk_create_urns had
\* minted urns, with the same dataset and the same data and no commit in
\* between, reads the counter the failed attempt had read and mints the
\* urns the failed attempt had minted.
C5_RetryMintsSameUrns ==
    \A r \in Requests :
        (/\ lastFail.valid
         /\ InFlight(r)
         /\ item[r].urn = lastFail.urn
         /\ variants_data[r] = lastFail.variants_data) =>
            /\ upload[r].read = lastFail.start
            /\ (pc[r] = "create" => item[r].num_variants = lastFail.start)
            /\ (pc[r] # "create" => variant_urns[r] = lastFail.urns)

C5_Witness ==
    \E r \in Requests :
        /\ lastFail.valid
        /\ lastFail.start = 2
        /\ pc[r] = "commit"
        /\ item[r].urn = lastFail.urn
        /\ variants_data[r] = lastFail.variants_data
        /\ variant_urns[r] = <<"urn:2#3", "urn:2#4">>

\* C6: all committed variant urns are pairwise distinct, whatever the
\* interleaving of two uploads to the same dataset.
C6_CommittedUrnsDistinct ==
    \A i, j \in DOMAIN variants : i # j => variants[i].urn # variants[j].urn

\* C7: in every reachable state the urn suffixes persisted for a dataset are
\* exactly 1 .. num_variants, each of them once.
C7_SuffixesAreOneToCounter ==
    \A u \in StoredUrns :
        LET vs == VariantsOf(variants, u)
        IN  /\ {vs[i].urn : i \in DOMAIN vs} =
                  {ChildUrn(u, k) : k \in 1..scoresets[u].num_variants}
            /\ Len(vs) = scoresets[u].num_variants

C9_ScoresOnlyNumbersFromOne ==
    (history # <<>> /\ Last(history).scores_only) =>
        LET h == Last(history)
            vs == VariantsOf(variants, h.urn)
            c == scoresets[h.urn].num_variants
        IN  /\ c = Len(h.keys)
            /\ [i \in DOMAIN vs |-> vs[i].urn] = [k \in 1..c |-> ChildUrn(h.urn, k)]
            /\ [i \in DOMAIN vs |-> Triple(vs[i])] = h.keys

\* C9, amended: a valid scores-only ingestion that read the counter value c
\* and whose scores table has k distinct identifier triples commits
\* num_variants = c + k, and the variants it creates have the urns
\* {parent}#(c+1) .. {parent}#(c+k) in first-appearance order of the triples.
C9_ScoresOnlyNumbersFromCounter ==
    \A n \in DOMAIN history :
        history[n].scores_only =>
            LET h == history[n]
            IN  /\ h.after = h.read + Len(h.keys)
                /\ h.urns = [i \in 1..Len(h.keys) |-> ChildUrn(h.urn, h.read + i)]
                /\ h.triples = h.keys

C9_Witness ==
    /\ Len(history) = 2
    /\ history[2].scores_only
    /\ history[2].read = 2
    /\ history[2].urns = <<"urn:1#3", "urn:1#4">>
    /\ history[2].keys = <<<<StrValue(<<"c", ".", "2", "C", ">", "T">>), NaN, NaN>>,
                            <<StrValue(<<"c", ".", "1", "A", ">", "G">>), NaN, NaN>>>>

\* C10, as claimed: an upload whose db.commit() raised is run again before
\* the error reaches the caller.
C10_ConflictIsRetried ==
    \A r \in Requests :
        (pc[r] = "failed" /\ err[r] = "Exception:commit") => attempts[r] > 1

\* C10, amended: nothing is retried: every call runs the handler body once,
\* and the first exception, that of db.commit() included, ends the call.
C10_NoRetry ==
    \A r \in Requests :
        /\ attempts[r] <= 1
        /\ pc[r] # "idle" => attempts[r] = 1

C10_Witness ==
    \E r, q \in Requests :
        /\ pc[r] = "failed" /\ err[r] = "Exception:commit" /\ attempts[r] = 1
        /\ pc[q] = "done"
        /\ Len(history) = 1

\* C17: is_null(value) is true exactly when str(value), stripped and
\* lowercased, is the empty string or one of none, nan, na, undefined, n/a,
\* null, nil as a whole token; a token that only contains such a spelling is
\* not null.
C17_IsNullWholeToken ==
    call.op = "is_null" =>
        LET v == Lower(Strip(PyStr(call.value)))
        IN  call.result <=>
                v \in {<<>>, <<"n", "o", "n", "e">>, <<"n", "a", "n">>, <<"n", "a">>,
                       <<"u", "n", "d", "e", "f", "i", "n", "e", "d">>, <<"n", "/", "a">>,
                       <<"n", "u", "l", "l">>, <<"n", "i", "l">>}

C17_Witness ==
    /\ call.op = "is_null"
    /\ call.value = StrValue(<<" ", "N", "a">>)
    /\ call.result

\* C18: in a loaded table a cell is missing exactly when is_null classifies
\* its whole token as missing; a cell that only contains a null spelling or
\* whitespace inside a longer token is not turned into missing.
C18_MissingIffWholeTokenNull ==
    (call.op = "load" /\ call.ok) =>
        \A i \in DOMAIN call.file.rows : \A c \in call.file.header :
            (call.df.rows[i][c] = NaN) <=> IsNull(StrValue(call.file.rows[i][c]))

\* C20: for each of hgvs_nt, hgvs_pro, hgvs_splice absent from an uploaded
\* table the loader adds the column, missing in every row, without raising
\* and without touching the loaded columns, and no identifier column is
\* counted among the score or count columns.
C20_AbsentIdentifierColumnsSynthesized ==
    (call.op = "load" /\ call.ok) =>
        /\ call.df.columns = call.file.header \cup {"hgvs_nt", "hgvs_pro", "hgvs_splice"}
        /\ Len(call.df.rows) = Len(call.file.rows)
        /\ \A c \in {"hgvs_nt", "hgvs_pro", "hgvs_splice"} \ call.file.header :
              /\ c \in call.df.columns
              /\ \A i \in DOMAIN call.df.rows : call.df.rows[i][c] = NaN
        /\ \A c \in call.file.header : \A i \in DOMAIN call.df.rows :
              call.df.rows[i][c] = ReadCsv(call.file).rows[i][c]
        /\ call.value_columns \cap {"hgvs_nt", "hgvs_pro", "hgvs_splice"} = {}
        /\ call.value_columns = call.file.header \ {"hgvs_nt", "hgvs_pro", "hgvs_splice"}

C20_Witness ==
    /\ call.op = "load" /\ call.ok
    /\ call.file.header = {"hgvs_splice", "score"}
    /\ Len(call.df.rows) = 2
    /\ call.df.rows[2]["hgvs_nt"] = NaN /\ call.df.rows[2]["hgvs_pro"] = NaN
    /\ call.df.rows[2]["score"] = NumValue(12)
    /\ call.value_columns = {"score"}

\* C12: a step that is not the commit of an ingestion of dataset u leaves
\* u's num_variants, dataset_columns and variants unchanged, whatever other
\* datasets are being ingested at the same time.
C12_OtherDatasetsUnchanged ==
    [][ \A u \in StoredUrns :
            (\A r \in Requests :
                ~(pc[r] = "commit" /\ pc'[r] = "done" /\ item[r].urn = u)) =>
                    /\ scoresets'[u] = scoresets[u]
                    /\ VariantsOf(variants', u) = VariantsOf(variants, u)
       ]_vars

C12_Witness ==
    \E r, q \in Requests :
        /\ pc[r] = "done"
        /\ pc[q] = "commit" /\ item[q].urn = "urn:1"
        /\ Len(history) = 1 /\ history[1].urn = "urn:2"
        /\ scoresets["urn:2"].num_variants = 2
        /\ scoresets["urn:1"].num_variants = 0
        /\ VariantsOf(variants, "urn:1") = <<>>

\* C13: the manifest a successful ingestion commits is exactly the
\* non-identifier columns of the uploaded scores table and those of the
\* uploaded counts table (none without a counts file), whatever the manifest
\* held before.
C13_ManifestOverwritten ==
    \A n \in DOMAIN history :
        history[n].manifest_after =
            [score_columns |-> history[n].score_columns,
             count_columns |-> history[n].count_columns]

C13_Witness ==
    /\ Len(history) = 2
    /\ history[2].urn = history[1].urn
    /\ history[2].manifest_before = [score_columns |-> {"score"},
                                     count_columns |-> {"c0"}]
    /\ history[2].scores_only
    /\ history[2].manifest_after = [score_columns |-> {"score"},
                                    count_columns |-> {}]

\* C14: the sequence passed to create_variants has one entry per distinct
\* identifier triple of either table, the triples of the scores table first
\* and the counts-only triples after them in their first-appearance order; an
\* entry has score_data exactly when its triple is in the scores table and
\* count_data exactly when it is in the counts table.
C14_MergedSequence ==
    \A r \in Requests :
        pc[r] = "create" =>
            LET ks == upload[r].keys
                cs == upload[r].count_keys
                only == SelectSeq(cs, LAMBDA t : t \notin SeqToSet(ks))
                vd == variants_data[r]
            IN  /\ [i \in DOMAIN vd |->
                      <<vd[i].hgvs_nt, vd[i].hgvs_pro, vd[i].hgvs_splice>>] = ks \o only
                /\ \A i \in DOMAIN vd :
                      LET t == <<vd[i].hgvs_nt, vd[i].hgvs_pro, vd[i].hgvs_splice>>
                      IN  /\ DOMAIN vd[i].data.score_data =
                                IF t \in SeqToSet(ks) THEN upload[r].score_columns ELSE {}
                          /\ DOMAIN vd[i].data.count_data =
                                IF t \in SeqToSet(cs) THEN upload[r].count_columns ELSE {}

C14_Witness ==
    \E r \in Requests :
        /\ pc[r] = "create"
        /\ Len(variants_data[r]) = 3
        /\ variants_data[r][1].hgvs_nt = StrValue(<<"c", ".", "1", "A", ">", "G">>)
        /\ variants_data[r][2].hgvs_nt = StrValue(<<"c", ".", "2", "C", ">", "T">>)
        /\ variants_data[r][3].hgvs_nt = StrValue(<<"c", ".", "3", "G", ">", "A">>)
        /\ variants_data[r][1].data.count_data = EmptyData
        /\ DOMAIN variants_data[r][2].data.score_data = {"score"}
        /\ DOMAIN variants_data[r][2].data.count_data = {"c0"}
        /\ variants_data[r][3].data.score_data = EmptyData

\* C15: an upload in which two rows of the scores table, or two rows of the
\* counts table, have the same identifier triple ends with an AmbiguousKey
\* error, and the call changes no committed counter, manifest or variant.
C15_DuplicateTripleRejected ==
    [][ /\ \A r \in Requests :
              upload'[r].duplicate => (pc'[r] = "failed" /\ err'[r] = "AmbiguousKey")
        /\ (calls' = calls + 1 /\ \E r \in Requests : upload'[r].duplicate) =>
              (scoresets' = scoresets /\ variants' = variants)
       ]_vars

C15_Witness ==
    \E r \in Requests :
        /\ upload[r].duplicate /\ ~upload[r].empty
        /\ pc[r] = "failed"
        /\ Len(history) = 1
        /\ Len(variants) = 2

C19_MalformedTokenRejected ==
    \A n \in DOMAIN history : ~history[n].malformed

\* C11: what an export returns is one committed state of the dataset: its
\* rows are the variants the dataset had when the export read the manifest,
\* or its columns are the manifest the dataset had when it read the variants.
C11_ExportIsSnapshot ==
    export.pc = "done" =>
        \/ [i \in DOMAIN export.rows |-> export.rows[i].accession] =
              export.variants_at_query
        \/ export.score_columns = export.manifest_at_load

\* C21: format_csv_rows returns one row per input variant, in input order,
\* each with exactly the requested columns; accession holds the variant's
\* urn and the identifier columns hold the variant's identifier fields, the
\* sentinel standing for an absent one.
C21_OneRowPerVariant ==
    call.op = "format_csv_rows" =>
        /\ call.result.ok
        /\ Len(call.result.rows) = Len(call.variants)
        /\ \A i \in DOMAIN call.variants :
            LET v == call.variants[i]
                row == call.result.rows[i]
                Id(x) == IF x.kind = "nan" THEN NaRep ELSE x.text
            IN  /\ DOMAIN row = SeqToSet(call.columns)
                /\ row["accession"] = v.urn
                /\ row["hgvs_nt"] = Id(v.hgvs_nt)
                /\ row["hgvs_pro"] = Id(v.hgvs_pro)
                /\ row["hgvs_splice"] = Id(v.hgvs_splice)

\* C22: for every requested non-identifier column the sentinel is written
\* when is_null classifies the value as missing and when the column is absent
\* from the variant's map; an absent column never makes the export fail.
C22_AbsentColumnIsSentinel ==
    call.op = "format_csv_rows" =>
        /\ call.result.ok
        /\ \A i \in DOMAIN call.variants :
            \A c \in SeqToSet(call.columns) \
                        {"accession", "hgvs_nt", "hgvs_pro", "hgvs_splice"} :
                LET data == call.variants[i].data[call.dtype]
                IN  (c \notin DOMAIN data \/ IsNull(data[c])) =>
                        call.result.rows[i][c] = NaRep

\* C23: loading the text an export returned through the upload's loader gives
\* the identifier triples, the set of score columns and the score values
\* (missing values equal to each other) of the variants that were exported,
\* for an export of at least one variant.
C23_ExportReloads ==
    (export.pc = "done" /\ Len(export.loaded) > 0) =>
        LET df == Reload(export.columns, export.rows)
            Same(a, b) == (a.kind = "nan" /\ b.kind = "nan") \/ a = b
        IN  /\ df.ok
            /\ DataColumns(df) = export.score_columns
            /\ Len(df.rows) = Len(export.loaded)
            /\ \A i \in DOMAIN export.loaded :
                /\ Triple(df.rows[i]) = Triple(export.loaded[i])
                /\ \A c \in export.score_columns :
                      Same(df.rows[i][c], export.loaded[i].data["score_data"][c])

\* C24: an upload addressed to a urn that matches no scoreset, or only a
\* private one, ends with an error for the caller, and its call changes no
\* committed dataset, manifest or variant.
C24_UnknownOrPrivateRejected ==
    [][\A r \in Requests : \A urn \in RequestUrns :
          (/\ urn \notin DOMAIN scoresets \/ scoresets[urn].private
           /\ Addressed(r, urn)) =>
              /\ pc'[r] = "failed" /\ err'[r] # ""
              /\ scoresets' = scoresets /\ variants' = variants
      ]_vars

C24_Witness ==
    \E r, q \in Requests :
        /\ pc[r] = "failed" /\ err[r] = "AttributeError"
        /\ pc[q] = "done"
        /\ Len(variants) = 1

\* C25: both endpoints return only publications whose identifier and db_name
\* are the requested ones, and answer 404 when no stored publication has
\* both, also when one has the identifier under another db_name.
C25_PublicationMatchesDbName ==
    call.op \in {"fetch_publication", "search_publications"} =>
        LET matching == {p \in call.store : /\ p.identifier = call.identifier
                                            /\ p.db_name = call.db_name}
        IN  /\ call.result.items \subseteq matching
            /\ matching = {} => call.result.status = 404

\* C26: target_genes_by_field for the organism field never fails, and its
\* count for "Homo sapiens" is the number of sequence-based targets of that
\* organism plus the number of accession-based targets, both under the
\* only_published filter.
C26_AccessionTargetsAreHuman ==
    call.op = "target_genes_by_field" =>
        LET human == Counted(call.seq_targets["Homo sapiens"], call.only_published)
                        + Counted(call.accession_targets, call.only_published)
            counts == call.result.counts
        IN  /\ call.result.ok
            /\ human = IF "Homo sapiens" \in DOMAIN counts
                       THEN counts["Homo sapiens"] ELSE 0

\* C27: a TargetAccession input with an accession is rejected with "either
\* a `gene` or `assembly` is required" whenever gene and assembly are both
\* left out or null, and accepted whenever one of them is given as text and
\* the other is given as text, left out or null.
C27_GeneOrAssemblyRequired ==
    (call.op = "TargetAccessionBase" /\ call.input.accession.kind = "str") =>
        LET Missing(x) == x.kind \in {"omitted", "null"}
            Given(x) == x.kind = "str" /\ x.text # ""
            gene == call.input.gene
            assembly == call.input.assembly
        IN  /\ (Missing(gene) /\ Missing(assembly)) =>
                  /\ ~call.result.accepted
                  /\ GeneOrAssemblyError \in call.result.errors
            /\ (/\ Given(gene) \/ Given(assembly)
                /\ Given(gene) \/ Missing(gene)
                /\ Given(assembly) \/ Missing(assembly)) => call.result.accepted

\* C28: a request that calls set_keywords is committed, the keyword table
\* keeps at most one row per text, also when the list has a text twice or two
\* experiments are given the same new text, and the keywords accessor of the
\* experiment returns the given texts.
C28_OneKeywordPerText ==
    /\ \A i, j \in DOMAIN keywords.rows :
          keywords.rows[i] = keywords.rows[j] => i = j
    /\ \A r \in Requests :
          LET ses == keywords.sessions[r]
          IN  /\ ses.pc # "failed"
              /\ (ses.pc = "done" /\ \A q \in Requests \ {r} :
                        keywords.sessions[q].experiment # ses.experiment) =>
                    Keywords(ses.experiment) = ses.texts

\* C29: update_scoreset and update_experiment keep the stored value of every
\* field whose update value is None, empty, 0 or False, and change nothing
\* and return nothing when the urn matches no public record.
C29_FalsyValuesKeepStored ==
    call.op \in {"update_scoreset", "update_experiment"} =>
        LET public == /\ call.urn \in DOMAIN call.store
                      /\ call.store[call.urn]["private"] = PyBool(FALSE)
            Falsy(v) == v \in {PyNone, StrValue(<<>>), NumValue(0), PyBool(FALSE)}
        IN  IF public
            THEN \A f \in DOMAIN call.pairs :
                    Falsy(call.pairs[f]) =>
                        call.result.store[call.urn][f] = call.store[call.urn][f]
            ELSE call.result.store = call.store /\ ~call.result.found

C29_Witness ==
    /\ call.op = "update_scoreset"
    /\ call.urn = "urn:1"
    /\ call.store["urn:1"]["licence_id"] = NumValue(1)
    /\ call.pairs["licence_id"] = NumValue(0)
    /\ call.pairs["title"] = StrValue(<<"B">>)
    /\ call.result.store["urn:1"]["licence_id"] = NumValue(1)
    /\ call.result.store["urn:1"]["title"] = StrValue(<<"B">>)

\* C30: for a scoreset whose private flag is true, fetch_scoreset answers
\* 404 and fetch_scoreset_scores returns none of its variant rows.
C30_PrivateNotDisclosed ==
    /\ (call.op = "fetch_scoreset" /\ call.urn \in PrivateUrns) =>
          call.result.status = 404
    /\ (export.pc = "done" /\ export.urn \in PrivateUrns) => export.rows = <<>>

====
